---- MODULE Spec2Model ----
(***************************************************************************)
(* PulseGuardian: the web handlers of pulseguardian/web.py and the broker  *)
(* management client of src/management.py, as one state machine over the   *)
(* local store (User, PulseUser, Queue), the broker (users, queues) and    *)
(* the browser session.  Texts (emails, usernames, passwords, the raw      *)
(* owner list) are sequences of one-character strings.                     *)
(***************************************************************************)
EXTENDS Integers, Sequences, FiniteSets, TLC

\* ------------------------------------------------------------------ bounds

\* Largest number of comma-separated fields in a submitted owner list.
MaxFields == 2

\* The same, where the owner-list edit is explored on its own.
MaxEditFields == 3

\* Largest length of a vhost, queue, user or channel name handed to the
\* broker client.
MaxIdLen == 3

\* ------------------------------------------------------------------ texts

\* The characters used by the inputs, in code-point order.
Chars == << " ", ",", "-", ".", "0", "1", "_", "a", "b", "c", "d", "e",
            "g", "h", "l", "n", "o", "p", "q", "r", "w", "x", "y" >>

Letters == {"a", "b", "c", "d", "e", "g", "h", "l", "n", "o", "p", "q", "r",
            "w", "x", "y"}

Digits == {"0", "1"}

Ord(c) == CHOOSE i \in 1..Len(Chars) : Chars[i] = c

\* Python's str < str: lexicographic by code point, a proper prefix first.
RECURSIVE LexLess(_, _)
LexLess(s, t) ==
    IF t = <<>> THEN FALSE
    ELSE IF s = <<>> THEN TRUE
    ELSE IF Head(s) = Head(t) THEN LexLess(Tail(s), Tail(t))
    ELSE Ord(Head(s)) < Ord(Head(t))

\* sorted(S) for a set of texts.
RECURSIVE sorted(_)
sorted(S) ==
    IF S = {} THEN <<>>
    ELSE LET m == CHOOSE x \in S : \A y \in S \ {x} : LexLess(x, y)
         IN  <<m>> \o sorted(S \ {m})

\* str.split(","): the fields between the commas, empty ones included.
RECURSIVE split(_)
split(s) ==
    IF \A i \in 1..Len(s) : s[i] # "," THEN <<s>>
    ELSE LET k == CHOOSE i \in 1..Len(s) :
                      s[i] = "," /\ \A j \in 1..(i - 1) : s[j] # ","
         IN  <<SubSeq(s, 1, k - 1)>> \o split(SubSeq(s, k + 1, Len(s)))

\* str.strip(): leading and trailing blanks removed.
RECURSIVE strip(_)
strip(s) ==
    IF s = <<>> THEN s
    ELSE IF Head(s) = " " THEN strip(Tail(s))
    ELSE IF s[Len(s)] = " " THEN strip(SubSeq(s, 1, Len(s) - 1))
    ELSE s

\* {owner.strip() for owner in owners_str.split(",") if owner}
clean_owners_str(owners_str) ==
    LET parts == split(owners_str)
    IN  {strip(parts[i]) : i \in {j \in 1..Len(parts) : parts[j] # <<>>}}

\* ", ".join(seq)
RECURSIVE join(_)
join(seq) ==
    IF seq = <<>> THEN <<>>
    ELSE IF Len(seq) = 1 THEN seq[1]
    ELSE seq[1] \o <<",", " ">> \o join(Tail(seq))

\* urllib's always_safe: the letters, the digits and "_.-" (of the
\* characters the names are made of).
always_safe == Letters \cup Digits \cup {"2", "5", "C", "F", "_", ".", "-"}

\* '%{:02X}' of a character's code: its two hexadecimal digits.
HexCode ==
    [c \in {" ", "%", ",", "/"} |->
        IF c = " " THEN <<"2", "0">>
        ELSE IF c = "%" THEN <<"2", "5">>
        ELSE IF c = "," THEN <<"2", "C">>
        ELSE <<"2", "F">>]

\* Mutant: quote(s) with its default safe='/', which leaves "/" as it is.
RECURSIVE quote_slash_safe(_)
quote_slash_safe(s) ==
    IF s = <<>> THEN <<>>
    ELSE (IF Head(s) \in always_safe \cup {"/"} THEN <<Head(s)>>
          ELSE <<"%">> \o HexCode[Head(s)]) \o quote_slash_safe(Tail(s))

\* urllib.quote(s, ''): every character outside always_safe becomes "%XX".
RECURSIVE quote(_)
quote(s) ==
    IF s = <<>> THEN <<>>
    ELSE (IF Head(s) \in always_safe THEN <<Head(s)>>
          ELSE <<"%">> \o HexCode[Head(s)]) \o quote(Tail(s))

\* The path each method of the broker client hands to _api_request.
queues_path(vhost) == <<"q", "u", "e", "u", "e", "s", "/">> \o quote(vhost)
queue_path(vhost, queue) == queues_path(vhost) \o <<"/">> \o quote(queue)
user_path(username) == <<"u", "s", "e", "r", "s", "/">> \o quote(username)
channel_path(channel) ==
    <<"c", "h", "a", "n", "n", "e", "l", "s", "/">> \o quote(channel)

\* ------------------------------------------------------------------ inputs

\* Emails: a and b are accounts of the identity provider; g and h never
\* log in, so no local User ever carries them.
EmailA == <<"a">>
EmailB == <<"b">>
EmailG == <<"g">>
EmailH == <<"h">>

IdpEmails == {EmailA, EmailB}

\* session['email'] = None, and request.form fields left empty.
None == <<>>

\* Pulse usernames submitted to the handlers.
NameP == <<"p", "1">>
NameBad == <<"1", "p">>
NameReserved == <<"r">>

Usernames == {NameP, NameBad, NameReserved}

QueueX == <<"x">>
QueueNames == {QueueX}

PwOld == <<"o", "l", "d", "p", "w", "0">>
PwNew == <<"n", "e", "w", "p", "w", "1">>
PwWeak == <<"a", "b", "c">>

\* (password, password verification) pairs of the forms.
PasswordForms ==
    { <<None, None>>, <<PwNew, PwNew>>, <<PwNew, PwOld>>, <<PwWeak, PwWeak>> }

RECURSIVE commaJoin(_)
commaJoin(fs) ==
    IF fs = <<>> THEN <<>>
    ELSE IF Len(fs) = 1 THEN fs[1]
    ELSE fs[1] \o <<",">> \o commaJoin(Tail(fs))

\* Every list of at most n of the given fields, comma-separated.
ListsOf(fields, n) ==
    { commaJoin(fs) : fs \in UNION { [1..k -> fields] : k \in 0..n } }

\* request.form['owners-list'] as the whole application is explored: lists of
\* a known address (blank before it), an address that is known once its
\* holder has logged in, and an unknown one (blank after it).
OwnerFields == { <<" ", "a">>, <<"b">>, <<"g", " ">> }
OwnerLists == ListsOf(OwnerFields, MaxFields)

\* request.form['owners-list'] as the owner-list edit is explored on its own:
\* also empty and blank fields and a second unknown address.
EditFields == { <<>>, <<" ">>, <<" ", "a">>, <<"b">>, <<"h">>, <<"g", " ">> }
EditLists == ListsOf(EditFields, MaxEditFields)

\* The characters of the names handed to the broker client, and the names.
IdChars == {"a", "/", "%", " ", "2", "F"}
Idents == UNION { [1..k -> IdChars] : k \in 1..MaxIdLen }
Vhosts == { <<"/">>, <<"a">>, <<"a", "/", "a">> }

\* Each submitted list with what _clean_owners_str makes of it.
Cleaned(lists) == { [raw |-> l, owners |-> clean_owners_str(l)] : l \in lists }
OwnerInputs == Cleaned(OwnerLists)
EditInputs == Cleaned(EditLists)

\* ------------------------------------------------------------------ state

VARIABLES
    users,          \* local store: the emails of the User rows
    admins,         \* local store: the emails of the Users whose admin flag is set
    pulse_users,    \* local store: PulseUser username -> the emails of its owners
    queues,         \* local store: Queue name -> owner username, or None
    rabbit_users,   \* broker: username -> password
    rabbit_queues,  \* broker: the names of its queues
    session,        \* the browser session: has_email, email, logged_in
    resp            \* the last request and the response it was given

vars == << users, admins, pulse_users, queues, rabbit_users, rabbit_queues,
           session, resp >>

store == << users, admins, pulse_users, queues >>
broker == << rabbit_users, rabbit_queues >>

\* A message shown to the caller: what it says and the texts it names.
Msg(tag, arg) == [tag |-> tag, arg |-> arg]
NoMsg == Msg("none", <<>>)

\* One step a request took: a broker call with the way the broker behaved,
\* or a commit to the local store.
Call(method, what, name, outcome) ==
    [ev |-> "broker", method |-> method, what |-> what, name |-> name,
     outcome |-> outcome]
Commit(method, what, name) ==
    [ev |-> "db", method |-> method, what |-> what, name |-> name,
     outcome |-> "commit"]

\* One call the login callback made to the identity provider, with the way
\* the provider answered it.
IdpCall(method, what, outcome) ==
    [ev |-> "idp", method |-> method, what |-> what, name |-> <<>>,
     outcome |-> outcome]

\* The form fields a request carried, as far as the handler used them: the
\* password, its verification, the cleaned owner list and, where the handler
\* went back to it, the owner list as it was submitted.
Form(password, verification, owners) ==
    [password |-> password, verification |-> verification, owners |-> owners,
     owners_list |-> <<>>]
NoForm == Form(<<>>, <<>>, {})

Response(op, target, form, status, ok, messages, error, errors, log) ==
    [op |-> op, user |-> IF session.has_email THEN session.email ELSE <<>>,
     target |-> target, form |-> form, status |-> status, ok |-> ok,
     messages |-> messages, error |-> error, errors |-> errors, log |-> log]

\* f without the key k, and f with k set to v.
Without(f, k) == [x \in DOMAIN f \ {k} |-> f[x]]
With(f, k, v) == [x \in DOMAIN f \cup {k} |-> IF x = k THEN v ELSE f[x]]

\* ------------------------------------------------------------------ broker

\* How the broker's management API treats one call: it serves it, answers
\* with an error document (4xx/5xx JSON with an "error" key), answers with a
\* body that is not JSON, or cannot be reached.
BrokerBehaviours == {"ok", "error", "garbage", "down"}

\* The broker's side of one HTTP call: the body it sends and its state after.
Serve(method, what, name, data, b) ==
    LET same == [body |-> "", users |-> rabbit_users, queues |-> rabbit_queues]
    IN  IF b = "down" THEN [same EXCEPT !.body = "no response"]
        ELSE IF b = "garbage" THEN [same EXCEPT !.body = "not json"]
        ELSE IF b = "error" THEN [same EXCEPT !.body = "json error"]
        ELSE IF what = "users" /\ method = "GET" THEN
            IF name \in DOMAIN rabbit_users
            THEN [same EXCEPT !.body = "json"]
            ELSE [same EXCEPT !.body = "json error"]
        ELSE IF what = "users" /\ method = "PUT" THEN
            [same EXCEPT !.body = "empty",
                         !.users = With(rabbit_users, name, data)]
        ELSE IF what = "users" /\ method = "DELETE" THEN
            IF name \in DOMAIN rabbit_users
            THEN [same EXCEPT !.body = "empty",
                              !.users = Without(rabbit_users, name)]
            ELSE [same EXCEPT !.body = "json error"]
        ELSE IF what = "queues" /\ method = "GET" THEN
            [same EXCEPT !.body = "json"]
        ELSE IF what = "queues" /\ method = "DELETE" THEN
            IF name \in rabbit_queues
            THEN [same EXCEPT !.body = "empty",
                              !.queues = rabbit_queues \ {name}]
            ELSE [same EXCEPT !.body = "json error"]
        ELSE [same EXCEPT !.body = "json error"]

\* PulseManagementAPI._api_request: None for an empty body, the parsed
\* document for JSON, PulseManagementException for any other body; a failed
\* send raises the HTTP library's ConnectionError.
api_request(method, what, name, data, b) ==
    LET r == Serve(method, what, name, data, b)
        out(ret, raised) ==
            [ret |-> ret, raised |-> raised, users |-> r.users,
             queues |-> r.queues, call |-> Call(method, what, name, b)]
    IN  IF r.body = "no response" THEN out("", "ConnectionError")
        ELSE IF r.body = "empty" THEN out("None", "")
        ELSE IF r.body \in {"json", "json error"} THEN out(r.body, "")
        ELSE out("", "PulseManagementException")

\* PulseManagementAPI.delete_queue: the result of the call is dropped.
mgmt_delete_queue(vhost, queue, b) ==
    [api_request("DELETE", "queues", queue, None, b) EXCEPT !.ret = "None"]

\* PulseManagementAPI.queues, called without a vhost: the listing of all
\* queues, or whatever else _api_request returns or raises.
mgmt_queues(b) == api_request("GET", "queues", None, None, b)

\* PulseManagementAPI.user
mgmt_user(username, b) == api_request("GET", "users", username, None, b)

\* PulseManagementAPI.create_user: the result of the call is dropped.
mgmt_create_user(username, password, b) ==
    [api_request("PUT", "users", username, password, b) EXCEPT !.ret = "None"]

\* PulseManagementAPI.delete_user: the result of the call is dropped.
mgmt_delete_user(username, b) ==
    [api_request("DELETE", "users", username, None, b) EXCEPT !.ret = "None"]

\* The loop of delete_all_queues over the rest of the listing, bs the way
\* the broker treats each delete: it ends with the listing or with the first
\* delete_queue that raises.
RECURSIVE delete_each(_, _, _)
delete_each(listing, bs, done) ==
    IF listing = <<>> THEN done
    ELSE LET queue_data == Head(listing)
             r == mgmt_delete_queue(queue_data.vhost, queue_data.name, Head(bs))
             now == [queues |-> done.queues \ (rabbit_queues \ r.queues),
                     log |-> Append(done.log, r.call),
                     raised |-> r.raised]
         IN  IF r.raised # "" THEN now
             ELSE delete_each(Tail(listing), Tail(bs), now)

\* PulseManagementAPI.delete_all_queues; listing: the queue records in the
\* order the broker lists them, bl: the way the broker treats the listing
\* call.  Iterating an error document gives its keys, and indexing a key
\* with 'vhost' raises TypeError.
mgmt_delete_all_queues(listing, bl, bs) ==
    LET l == mgmt_queues(bl)
        start == [queues |-> rabbit_queues, log |-> <<l.call>>, raised |-> l.raised]
    IN  IF l.raised # "" THEN start
        ELSE IF l.ret # "json" THEN [start EXCEPT !.raised = "TypeError"]
        ELSE delete_each(listing, bs, start)

\* ------------------------------------------------------------------ local store

\* User.new_user: a new row, its admin flag unset.
new_user_row(email) == users \cup {email}

\* Mutant: the row is removed and the Queue rows that refer to it are not
\* touched.
db_delete_pulse_user_row_only(username) ==
    [pulse_users |-> Without(pulse_users, username), queues |-> queues]

\* db_session.delete(pulse_user) and commit: the row goes, and the Queue
\* rows that referred to it are left with no owner on record.
db_delete_pulse_user(username) ==
    [pulse_users |-> Without(pulse_users, username),
     queues |-> [q \in DOMAIN queues |->
                    IF queues[q] = username THEN None ELSE queues[q]]]

\* Mutant: the deletion of the row is never committed.
db_delete_queue_lost(queue_name) == queues

\* db_session.delete(queue) and commit.
db_delete_queue(queue_name) == Without(queues, queue_name)

\* Mutant: the submitted emails are taken as they are, with or without a row.
users_with_email_unfiltered(emails, rows) == emails

\* User.query.filter(User.email.in_(emails)): the emails that have a row.
users_with_email(emails, rows) == emails \cap rows

\* user.pulse_users
pulse_users_of(email) == {n \in DOMAIN pulse_users : email \in pulse_users[n]}

\* PulseUser.strong_password: six characters or more, a letter and a digit.
strong_password(password) ==
    /\ Len(password) >= 6
    /\ \E i \in 1..Len(password) : password[i] \in Letters
    /\ \E i \in 1..Len(password) : password[i] \in Digits

\* ------------------------------------------------------------------ request context

\* session.get('email')
session_email == IF session.has_email THEN session.email ELSE None

\* load_user (before every request): g.user is the session's User, created
\* if the store has none; fake_account is not configured.
g_user == session_email
load_user == IF session_email = None THEN users ELSE new_user_row(session_email)

\* requires_login lets the view run.
requires_login == session_email # None

\* Mutant: the view runs for every logged-in user.
requires_admin_missing == TRUE

\* requires_admin lets the view run.
requires_admin == g_user \in admins

\* Mutant: any user may delete a queue that has an owner on record.
may_delete_queue_any_owner(u, queue_name) ==
    u \in admins \/ queues[queue_name] # None

\* delete_queue's condition on g.user and the queue found.
may_delete_queue(u, queue_name) ==
    \/ u \in admins
    \/ /\ queues[queue_name] # None
       /\ queues[queue_name] \in DOMAIN pulse_users
       /\ u \in pulse_users[queues[queue_name]]

\* Mutant: only an owner may delete a pulse user, an admin may not.
may_delete_pulse_user_owner_only(u, username) == u \in pulse_users[username]

\* delete_pulse_user's condition on g.user and the pulse user found.
may_delete_pulse_user(u, username) ==
    u \in admins \/ u \in pulse_users[username]

\* Mutant: an admin may edit a pulse user it does not own.
may_update_info_or_admin(u, username) ==
    u \in admins \/ u \in pulse_users[username]

\* update_info's condition on g.user and the pulse user found.
may_update_info(u, username) == u \in pulse_users[username]

\* The view did not run: requires_login answered redirect('/').
LoginRedirect(op, target) ==
    /\ resp' = Response(op, target, NoForm, "redirect /", "none", <<>>, NoMsg, <<>>, <<>>)
    /\ UNCHANGED << users, admins, pulse_users, queues, rabbit_users,
                    rabbit_queues, session >>

\* ------------------------------------------------------------------ handlers

\* DELETE /queue/<queue_name>
delete_queue(queue_name, b) ==
    IF ~requires_login THEN LoginRedirect("delete_queue", queue_name)
    ELSE
    LET r == mgmt_delete_queue(<<"/">>, queue_name, b)
        answer(status, ok, log) ==
            Response("delete_queue", queue_name, NoForm, status, ok, <<>>, NoMsg, <<>>, log)
    IN  /\ users' = load_user
        /\ UNCHANGED << admins, pulse_users, rabbit_users, session >>
        /\ IF queue_name \in DOMAIN queues /\ may_delete_queue(g_user, queue_name)
           THEN /\ rabbit_queues' = r.queues
                /\ IF r.raised = "PulseManagementException"
                   THEN /\ resp' = answer("json", "false", <<r.call>>)
                        /\ UNCHANGED queues
                   ELSE IF r.raised # ""
                   THEN /\ resp' = answer("error 500", "none", <<r.call>>)
                        /\ UNCHANGED queues
                   ELSE /\ queues' = db_delete_queue(queue_name)
                        /\ resp' = answer("json", "true",
                               <<r.call, Commit("delete", "queue", queue_name)>>)
           ELSE /\ resp' = answer("json", "false", <<>>)
                /\ UNCHANGED << queues, rabbit_queues >>

\* DELETE /pulse-user/<pulse_username>
delete_pulse_user(pulse_username, b) ==
    IF ~requires_login THEN LoginRedirect("delete_pulse_user", pulse_username)
    ELSE
    LET r == mgmt_delete_user(pulse_username, b)
        after == db_delete_pulse_user(pulse_username)
        answer(status, ok, log) ==
            Response("delete_pulse_user", pulse_username, NoForm, status, ok, <<>>, NoMsg,
                     <<>>, log)
    IN  /\ users' = load_user
        /\ UNCHANGED << admins, rabbit_queues, session >>
        /\ IF /\ pulse_username \in DOMAIN pulse_users
              /\ may_delete_pulse_user(g_user, pulse_username)
           THEN /\ rabbit_users' = r.users
                /\ IF r.raised = "PulseManagementException"
                   THEN /\ resp' = answer("json", "false", <<r.call>>)
                        /\ UNCHANGED << pulse_users, queues >>
                   ELSE IF r.raised # ""
                   THEN /\ resp' = answer("error 500", "none", <<r.call>>)
                        /\ UNCHANGED << pulse_users, queues >>
                   ELSE /\ pulse_users' = after.pulse_users
                        /\ queues' = after.queues
                        /\ resp' = answer("json", "true",
                               <<r.call, Commit("delete", "pulse_user", pulse_username)>>)
           ELSE /\ resp' = answer("json", "false", <<>>)
                /\ UNCHANGED << pulse_users, queues, rabbit_users >>

\* PUT /user/<user_id>/set-admin; has_key: the body carries 'isAdmin'.
set_user_admin(user_id, has_key, is_admin) ==
    IF ~requires_login THEN LoginRedirect("set_user_admin", user_id)
    ELSE
    LET answer(status, ok) ==
            Response("set_user_admin", user_id, NoForm, status, ok, <<>>, NoMsg, <<>>, <<>>)
    IN  /\ users' = load_user
        /\ UNCHANGED << pulse_users, queues, rabbit_users, rabbit_queues, session >>
        /\ IF ~requires_admin
           THEN resp' = answer("abort 404", "none") /\ UNCHANGED admins
           ELSE IF ~has_key
           THEN resp' = answer("abort 400", "none") /\ UNCHANGED admins
           ELSE IF user_id \notin load_user
           THEN resp' = answer("json", "false") /\ UNCHANGED admins
           ELSE /\ admins' = IF is_admin THEN admins \cup {user_id}
                             ELSE admins \ {user_id}
                /\ resp' = answer("json", "true")

\* POST /auth/logout
logout_handler ==
    /\ session' = [has_email |-> TRUE, email |-> None, logged_in |-> FALSE]
    /\ users' = load_user
    /\ resp' = Response("logout_handler", None, NoForm, "json", "true", <<>>, NoMsg,
                        <<>>, <<>>)
    /\ UNCHANGED << admins, pulse_users, queues, rabbit_users, rabbit_queues >>

\* config.auth0_domain
auth0_domain == <<"d">>

\* GET /auth/callback; idp: how the identity provider answers, email: the
\* address of the profile it returns.
callback_handling(idp, email) ==
    LET token == IdpCall("POST", "oauth/token",
                         IF idp = "no token" THEN "error" ELSE "ok")
        profile == IdpCall("GET", "userinfo",
                           IF idp = "ok" THEN "ok" ELSE "error")
        answer(status, messages, log) ==
            Response("callback_handling", email, NoForm, status, "none", messages, NoMsg,
                     <<>>, log)
    IN  /\ UNCHANGED << admins, pulse_users, queues, rabbit_users, rabbit_queues >>
        /\ IF idp = "no token"
           THEN \* token_info['access_token'] raises KeyError
                /\ resp' = answer("error 500", <<>>, <<token>>)
                /\ users' = load_user
                /\ UNCHANGED session
           ELSE IF idp = "ok"
           THEN /\ session' = [has_email |-> TRUE, email |-> email,
                               logged_in |-> TRUE]
                /\ users' = load_user \cup {email}
                /\ resp' = answer(IF pulse_users_of(email) # {}
                                  THEN "redirect /" ELSE "redirect /register", <<>>,
                                  <<token, profile>>)
           ELSE /\ resp' = answer("redirect /",
                               <<Msg("Error verifying with Auth0", <<auth0_domain>>)>>,
                               <<token, profile>>)
                /\ users' = load_user
                /\ UNCHANGED session

\* PulseUser.change_password: the broker-side credential is set to the new
\* password.
change_password(username, new_password, b) ==
    mgmt_create_user(username, new_password, b)

\* Mutant: unresolved emails make the edit leave the owners as they were.
update_owners_all_or_nothing(pulse_username, new_owners, rows, messages) ==
    LET old_owners == pulse_users[pulse_username]
        new_owner_users == users_with_email(new_owners, rows)
        invalid_owners == sorted(new_owners \ new_owner_users)
        kept == [owners |-> old_owners, messages |-> messages, error |-> NoMsg,
                 log |-> <<>>]
        done ==
            IF new_owners # {} /\ new_owners # old_owners
            THEN IF new_owner_users # {}
                 THEN [owners |-> IF invalid_owners # <<>> THEN old_owners
                                  ELSE new_owner_users,
                       messages |-> IF invalid_owners # <<>> THEN messages
                                    ELSE <<Msg("Email list updated.", <<>>)>>,
                       error |-> IF invalid_owners # <<>>
                                 THEN Msg("Some user emails not found: ",
                                          <<join(invalid_owners)>>)
                                 ELSE NoMsg,
                       log |-> <<Commit("update", "owners", pulse_username)>>]
                 ELSE [kept EXCEPT !.error = Msg("Invalid owners: Must be a comma-delimited list of existing user emails.", <<>>)]
            ELSE kept
    IN  IF done.error = NoMsg /\ done.messages = <<>>
        THEN [done EXCEPT !.messages = <<Msg("No info updated.", <<>>)>>]
        ELSE done

\* Mutant: the resolved set replaces the owners even when it is empty.
update_owners_unguarded(pulse_username, new_owners, rows, messages) ==
    LET old_owners == pulse_users[pulse_username]
        new_owner_users == users_with_email(new_owners, rows)
        invalid_owners == sorted(new_owners \ new_owner_users)
        kept == [owners |-> old_owners, messages |-> messages, error |-> NoMsg,
                 log |-> <<>>]
        done ==
            IF new_owners # {} /\ new_owners # old_owners
            THEN IF TRUE
                 THEN [owners |-> new_owner_users,
                       messages |-> IF invalid_owners # <<>> THEN messages
                                    ELSE <<Msg("Email list updated.", <<>>)>>,
                       error |-> IF invalid_owners # <<>>
                                 THEN Msg("Some user emails not found: ",
                                          <<join(invalid_owners)>>)
                                 ELSE NoMsg,
                       log |-> <<Commit("update", "owners", pulse_username)>>]
                 ELSE [kept EXCEPT !.error = Msg("Invalid owners: Must be a comma-delimited list of existing user emails.", <<>>)]
            ELSE kept
    IN  IF done.error = NoMsg /\ done.messages = <<>>
        THEN [done EXCEPT !.messages = <<Msg("No info updated.", <<>>)>>]
        ELSE done

\* update_info, "Update the owners list, if needed": the owners, the
\* messages, the error and the commits it ends with.
update_owners(pulse_username, new_owners, rows, messages) ==
    LET old_owners == pulse_users[pulse_username]
        new_owner_users == users_with_email(new_owners, rows)
        invalid_owners == sorted(new_owners \ new_owner_users)
        kept == [owners |-> old_owners, messages |-> messages, error |-> NoMsg,
                 log |-> <<>>]
        done ==
            IF new_owners # {} /\ new_owners # old_owners
            THEN IF new_owner_users # {}
                 THEN [owners |-> new_owner_users,
                       messages |-> IF invalid_owners # <<>> THEN messages
                                    ELSE <<Msg("Email list updated.", <<>>)>>,
                       error |-> IF invalid_owners # <<>>
                                 THEN Msg("Some user emails not found: ",
                                          <<join(invalid_owners)>>)
                                 ELSE NoMsg,
                       log |-> <<Commit("update", "owners", pulse_username)>>]
                 ELSE [kept EXCEPT !.error = Msg("Invalid owners: Must be a comma-delimited list of existing user emails.", <<>>)]
            ELSE kept
    IN  IF done.error = NoMsg /\ done.messages = <<>>
        THEN [done EXCEPT !.messages = <<Msg("No info updated.", <<>>)>>]
        ELSE done

\* POST /update_info; the owner list and the broker's behaviour are drawn
\* where the handler first depends on them.
update_info(pulse_username, new_password, password_verification, inputs) ==
    IF ~requires_login THEN LoginRedirect("update_info", pulse_username)
    ELSE
    LET rows == load_user
        changed == new_password # None
        profile(form, messages, error, log) ==
            Response("update_info", pulse_username, form, "page profile", "none",
                     messages, error, <<>>, log)
        refused(form, messages, error) ==
            /\ resp' = profile(form, messages, error, <<>>)
            /\ UNCHANGED << pulse_users, rabbit_users >>
        blank == Form(new_password, password_verification, {})
    IN  /\ users' = rows
        /\ UNCHANGED << admins, queues, rabbit_queues, session >>
        /\ IF pulse_username \notin DOMAIN pulse_users
           THEN refused(blank, <<Msg("Pulse user not found.", <<pulse_username>>)>>,
                        NoMsg)
           ELSE IF ~may_update_info(g_user, pulse_username)
           THEN refused(blank, <<Msg("Invalid user: is not an owner.", <<g_user>>)>>,
                        NoMsg)
           ELSE
           \E new_owners \in {i.owners : i \in inputs} :
           LET form == Form(new_password, password_verification, new_owners)
           IN
           IF changed /\ new_password # password_verification
           THEN refused(form, <<>>, Msg("Password verification doesn't match the password.", <<>>))
           ELSE IF changed /\ ~strong_password(new_password)
           THEN refused(form, <<>>, Msg("Your password must contain a mix of letters and numerical characters and be at least 6 characters long.", <<>>))
           ELSE
           \E b \in IF changed THEN BrokerBehaviours ELSE {"ok"} :
           LET pw == change_password(pulse_username, new_password, b)
               said == IF changed
                       THEN <<Msg("Password updated for user.", <<pulse_username>>)>>
                       ELSE <<>>
               log == IF changed THEN <<pw.call>> ELSE <<>>
               o == update_owners(pulse_username, new_owners, rows, said)
           IN  IF changed /\ pw.raised # ""
               THEN /\ resp' = Response("update_info", pulse_username, form,
                                        "error 500", "none", <<>>, NoMsg, <<>>, log)
                    /\ UNCHANGED << pulse_users, rabbit_users >>
               ELSE /\ rabbit_users' = IF changed THEN pw.users ELSE rabbit_users
                    /\ pulse_users' = [pulse_users EXCEPT ![pulse_username] = o.owners]
                    /\ resp' = profile(form, o.messages, o.error, log \o o.log)

\* config.reserved_users_regex: the usernames the operator reserves.
reserved_users_regex(username) == username # <<>> /\ Head(username) = "r"

\* re.match('^[a-zA-Z][a-zA-Z0-9._-]*$', username)
username_shape(username) ==
    /\ username # <<>>
    /\ Head(username) \in Letters
    /\ \A i \in 2..Len(username) :
           username[i] \in Letters \cup Digits \cup {".", "_", "-"}

\* PulseUser.new_user: the broker-side user first, then the local row with
\* its owners.
new_pulse_user(username, password, owner_users, b) ==
    LET r == mgmt_create_user(username, password, b)
    IN  IF r.raised # ""
        THEN [raised |-> r.raised, users |-> r.users, rows |-> pulse_users,
              log |-> <<r.call>>]
        ELSE [raised |-> "", users |-> r.users,
              rows |-> With(pulse_users, username, owner_users),
              log |-> <<r.call, Commit("add", "pulse_user", username)>>]

\* Mutant: the message shows the cleaned emails instead of the submitted
\* text.
invalid_owners_list_error_cleaned(owners_list) ==
    Msg("Invalid owners list: ",
        <<IF owners_list # <<>> THEN join(sorted(clean_owners_str(owners_list)))
          ELSE <<"N", "o", "n", "e">> >>)

\* register_handler, "Invalid owners list: {}".format(
\* request.form['owners-list'] or "None")
invalid_owners_list_error(owners_list) ==
    Msg("Invalid owners list: ",
        <<IF owners_list # <<>> THEN owners_list ELSE <<"N", "o", "n", "e">> >>)

\* register_handler, "Checking if a user exists in RabbitMQ OR in our db":
\* what the lookup's result makes of in_rabbitmq, or the error that escapes.
in_rabbitmq(lookup) ==
    IF lookup.raised = "PulseManagementException" THEN "False"
    ELSE IF lookup.raised # "" THEN lookup.raised
    ELSE IF lookup.ret = "None" THEN "TypeError"
    ELSE IF lookup.ret = "json error" THEN "False"
    ELSE "True"

\* POST /register; b1: how the broker treats the lookup.  The owner list
\* and the broker's treatment of the creation are drawn where the handler
\* first depends on them.
register_handler(username, password, password_verification, b1, inputs) ==
    LET rows == load_user
        lookup == mgmt_user(username, b1)
        exists == in_rabbitmq(lookup)
        errors ==
            (IF password # password_verification
             THEN <<Msg("Password verification doesn't match the password.", <<>>)>>
             ELSE IF ~strong_password(password)
             THEN <<Msg("Your password must contain a mix of letters and numerical characters and be at least 6 characters long.", <<>>)>>
             ELSE <<>>)
            \o (IF ~username_shape(username)
                THEN <<Msg("The submitted username must start with an alphabetical character and contain only alphanumeric characters, periods, underscores, and hyphens.", <<>>)>>
                ELSE <<>>)
            \o (IF reserved_users_regex(username)
                THEN <<Msg("The submitted username is reserved.", <<>>)>>
                ELSE <<>>)
            \o (IF exists = "True" \/ username \in DOMAIN pulse_users
                THEN <<Msg("A user with the same username already exists.", <<>>)>>
                ELSE <<>>)
        blank == Form(password, password_verification, {})
        answer(form, status, error, errs, log) ==
            Response("register_handler", username, form, status, "none", <<>>,
                     error, errs, log)
        nothing == UNCHANGED << pulse_users, rabbit_users >>
    IN  /\ users' = rows
        /\ UNCHANGED << admins, queues, rabbit_queues, session >>
        /\ IF ~session.has_email
           THEN \* session['email'] raises KeyError
                resp' = answer(blank, "error 500", NoMsg, <<>>, <<>>) /\ nothing
           ELSE IF exists \notin {"True", "False"}
           THEN resp' = answer(blank, "error 500", NoMsg, <<>>, <<lookup.call>>)
                /\ nothing
           ELSE IF errors # <<>>
           THEN resp' = answer(blank, "page register", NoMsg, errors, <<lookup.call>>)
                /\ nothing
           ELSE
           \E owners \in {i.owners : i \in inputs} :
           LET owner_users == users_with_email(owners, rows)
               form == Form(password, password_verification, owners)
           IN  IF owner_users = {}
               THEN
               \E owners_list \in {i.raw : i \in {j \in inputs : j.owners = owners}} :
                    /\ resp' = IF ~requires_login
                               THEN \* register() is behind requires_login
                                    answer([form EXCEPT !.owners_list = owners_list],
                                           "redirect /", NoMsg, <<>>, <<lookup.call>>)
                               ELSE answer([form EXCEPT !.owners_list = owners_list],
                                           "page register",
                                           invalid_owners_list_error(owners_list),
                                           <<>>, <<lookup.call>>)
                    /\ nothing
               ELSE
               \E b2 \in BrokerBehaviours :
               LET created == new_pulse_user(username, password, owner_users, b2)
               IN  /\ rabbit_users' = created.users
                   /\ pulse_users' = created.rows
                   /\ resp' = answer(form, IF created.raised # "" THEN "error 500"
                                     ELSE "redirect /profile",
                                     NoMsg, <<>>, <<lookup.call>> \o created.log)

\* ------------------------------------------------------------------ specification

Init ==
    /\ users = {EmailA}
    /\ admins = {EmailA}
    /\ pulse_users = [n \in {NameP} |-> {EmailA}]
    /\ queues = [q \in QueueNames |-> NameP]
    /\ rabbit_users = [n \in {NameP} |-> PwOld]
    /\ rabbit_queues = QueueNames
    /\ session = [has_email |-> FALSE, email |-> None, logged_in |-> FALSE]
    /\ resp = [op |-> "none", user |-> None, target |-> None, form |-> NoForm,
               status |-> "none",
               ok |-> "none", messages |-> <<>>, error |-> NoMsg, errors |-> <<>>,
               log |-> <<>>]

IdpAnswers == {"ok", "no token", "no profile"}

Next ==
    \/ \E idp \in IdpAnswers, email \in IdpEmails : callback_handling(idp, email)
    \/ logout_handler
    \/ \E q \in QueueNames, b \in BrokerBehaviours : delete_queue(q, b)
    \/ \E n \in Usernames, b \in BrokerBehaviours : delete_pulse_user(n, b)
    \/ \E u \in IdpEmails \cup {EmailG}, has_key \in BOOLEAN, is_admin \in BOOLEAN :
           set_user_admin(u, has_key, is_admin)
    \/ \E n \in Usernames, pw \in PasswordForms : update_info(n, pw[1], pw[2], OwnerInputs)
    \/ \E n \in Usernames, pw \in PasswordForms, b1 \in BrokerBehaviours :
           register_handler(n, pw[1], pw[2], b1, OwnerInputs)

Spec == Init /\ [][Next]_vars

\* The owner-list edit on its own: logins, logouts and update_info with the
\* wider owner lists.
NextEdit ==
    \/ \E idp \in IdpAnswers, email \in IdpEmails : callback_handling(idp, email)
    \/ logout_handler
    \/ \E n \in Usernames, pw \in PasswordForms : update_info(n, pw[1], pw[2], EditInputs)

SpecEdit == Init /\ [][NextEdit]_vars

\* The queues the broker may hold when the client is used on its own.
BrokerQueues == { <<"x">>, <<"y">>, <<"a", "/", "b">> }

\* The queue records of the broker in every order it may list them.
Listings ==
    { [i \in 1..Cardinality(rabbit_queues) |-> [vhost |-> <<"/">>, name |-> f[i]]] :
        f \in { g \in [1..Cardinality(rabbit_queues) -> rabbit_queues] :
                   \A i, j \in DOMAIN g : i # j => g[i] # g[j] } }

\* A call of delete_all_queues.
delete_all_queues(listing, bl, bs) ==
    LET r == mgmt_delete_all_queues(listing, bl, bs)
    IN  /\ rabbit_queues' = r.queues
        /\ resp' = Response("delete_all_queues",
                            IF Len(r.log) > 1 \/ (r.raised = "" /\ listing = <<>>)
                            THEN [i \in DOMAIN listing |-> listing[i].name]
                            ELSE <<>>,
                            NoForm,
                            IF r.raised = "" THEN "returned" ELSE r.raised,
                            "none", <<>>, NoMsg, <<>>, r.log)
        /\ UNCHANGED << store, rabbit_users, session >>

\* The broker client on its own, clearing a broker that holds any of the
\* queues.
InitBulk ==
    /\ users = {EmailA}
    /\ admins = {EmailA}
    /\ pulse_users = [n \in {NameP} |-> {EmailA}]
    /\ queues = [q \in QueueNames |-> NameP]
    /\ rabbit_users = [n \in {NameP} |-> PwOld]
    /\ rabbit_queues \in SUBSET BrokerQueues
    /\ session = [has_email |-> FALSE, email |-> None, logged_in |-> FALSE]
    /\ resp = [op |-> "none", user |-> None, target |-> None, form |-> NoForm,
               status |-> "none",
               ok |-> "none", messages |-> <<>>, error |-> NoMsg, errors |-> <<>>,
               log |-> <<>>]

NextBulk ==
    \E listing \in Listings, bl \in BrokerBehaviours,
       bs \in [1..Cardinality(rabbit_queues) -> BrokerBehaviours] :
        delete_all_queues(listing, bl, bs)

SpecBulk == InitBulk /\ [][NextBulk]_vars

\* Two register requests served at the same time, by two workers of the web
\* server: each request is a step up to the broker lookup and the checks,
\* a step for the broker-side creation and a step for the local row.
RaceRequests == {1, 2}
RaceUsernames == { <<"q">>, <<"w">> }
RacePasswords == {PwNew, PwOld}

\* resp.requests[i]: where request i stands, the form it carries, the way
\* the broker treated its lookup and the response it ended with.
Posted(username, password) ==
    [pc |-> "posted", username |-> username, password |-> password,
     owners |-> clean_owners_str(<<" ", "a">>), lookup |-> "none",
     status |-> "none"]

\* One step of request i: its record after the step.
Step(op, i, after) ==
    resp' = [op |-> op, target |-> i,
             requests |-> [resp.requests EXCEPT ![i] = after]]

\* register_handler up to "if not owner_users": the checks of the form, the
\* lookup on the broker and in the local store, the owners resolved.
register_lookup(i, b) ==
    LET q == resp.requests[i]
        lookup == mgmt_user(q.username, b)
        exists == in_rabbitmq(lookup)
        rejected ==
            \/ ~strong_password(q.password)
            \/ ~username_shape(q.username)
            \/ reserved_users_regex(q.username)
            \/ exists = "True"
            \/ q.username \in DOMAIN pulse_users
        owner_users == users_with_email(q.owners, load_user)
        seen == [q EXCEPT !.lookup = b]
    IN  /\ q.pc = "posted"
        /\ users' = load_user
        /\ UNCHANGED << admins, pulse_users, queues, broker, session >>
        /\ IF exists \notin {"True", "False"}
           THEN Step("register_lookup", i,
                     [seen EXCEPT !.pc = "done", !.status = "error 500"])
           ELSE IF rejected \/ owner_users = {}
           THEN Step("register_lookup", i,
                     [seen EXCEPT !.pc = "done", !.status = "page register"])
           ELSE Step("register_lookup", i, [seen EXCEPT !.pc = "checked"])

\* PulseUser.new_user, first half: the broker-side user is created.
register_create_user(i, b) ==
    LET q == resp.requests[i]
        r == mgmt_create_user(q.username, q.password, b)
    IN  /\ q.pc = "checked"
        /\ rabbit_users' = r.users
        /\ UNCHANGED << store, rabbit_queues, session >>
        /\ IF r.raised # ""
           THEN Step("register_create_user", i,
                     [q EXCEPT !.pc = "done", !.status = "error 500"])
           ELSE Step("register_create_user", i, [q EXCEPT !.pc = "created"])

\* PulseUser.new_user, second half, and the redirect: the local row is
\* added; the username is the key of the row, so a second row of the same
\* username fails to commit.
register_commit(i) ==
    LET q == resp.requests[i]
    IN  /\ q.pc = "created"
        /\ UNCHANGED << users, admins, queues, broker, session >>
        /\ IF q.username \in DOMAIN pulse_users
           THEN /\ UNCHANGED pulse_users
                /\ Step("register_commit", i,
                        [q EXCEPT !.pc = "done", !.status = "error 500"])
           ELSE /\ pulse_users' = With(pulse_users, q.username,
                                       users_with_email(q.owners, users))
                /\ Step("register_commit", i,
                        [q EXCEPT !.pc = "done", !.status = "redirect /profile"])

InitRace ==
    /\ users = {EmailA}
    /\ admins = {EmailA}
    /\ pulse_users = [n \in {NameP} |-> {EmailA}]
    /\ queues = [q \in QueueNames |-> NameP]
    /\ rabbit_users = [n \in {NameP} |-> PwOld]
    /\ rabbit_queues = QueueNames
    /\ session = [has_email |-> TRUE, email |-> EmailA, logged_in |-> TRUE]
    /\ \E names \in [RaceRequests -> RaceUsernames],
          passwords \in [RaceRequests -> RacePasswords] :
           resp = [op |-> "none", target |-> 0,
                   requests |-> [i \in RaceRequests |->
                                    Posted(names[i], passwords[i])]]

NextRace ==
    \/ \E i \in RaceRequests, b \in BrokerBehaviours : register_lookup(i, b)
    \/ \E i \in RaceRequests, b \in BrokerBehaviours : register_create_user(i, b)
    \/ \E i \in RaceRequests : register_commit(i)

SpecRace == InitRace /\ [][NextRace]_vars

\* The methods of the broker client that put a name into the request path.
ClientMethods ==
    {"queues", "queue", "delete_queue", "user", "create_user", "delete_user",
     "channel"}

\* The HTTP method and the path a client method hands to _api_request for
\* the vhost and the queue, user or channel name it is called with.
request_of(kind, vhost, name) ==
    IF kind = "queues" THEN [method |-> "GET", path |-> queues_path(vhost)]
    ELSE IF kind = "queue" THEN [method |-> "GET", path |-> queue_path(vhost, name)]
    ELSE IF kind = "delete_queue"
    THEN [method |-> "DELETE", path |-> queue_path(vhost, name)]
    ELSE IF kind = "user" THEN [method |-> "GET", path |-> user_path(name)]
    ELSE IF kind = "create_user" THEN [method |-> "PUT", path |-> user_path(name)]
    ELSE IF kind = "delete_user" THEN [method |-> "DELETE", path |-> user_path(name)]
    ELSE [method |-> "GET", path |-> channel_path(name)]

\* A client method is called with the names at hand and prepares its request.
prepare(kind) ==
    /\ resp' = [resp EXCEPT !.op = kind,
                            !.method = request_of(kind, resp.vhost, resp.name).method,
                            !.path = request_of(kind, resp.vhost, resp.name).path]
    /\ UNCHANGED << store, broker, session >>

\* The broker client on its own: the names are drawn, the methods build
\* their request paths.
InitPath ==
    /\ users = {EmailA}
    /\ admins = {EmailA}
    /\ pulse_users = [n \in {NameP} |-> {EmailA}]
    /\ queues = [q \in QueueNames |-> NameP]
    /\ rabbit_users = [n \in {NameP} |-> PwOld]
    /\ rabbit_queues = QueueNames
    /\ session = [has_email |-> FALSE, email |-> None, logged_in |-> FALSE]
    /\ \E vhost \in Vhosts, name \in Idents :
           resp = [op |-> "none", vhost |-> vhost, name |-> name,
                   method |-> "none", path |-> <<>>]

NextPath == \E kind \in ClientMethods : prepare(kind)

SpecPath == InitPath /\ [][NextPath]_vars

\* ------------------------------------------------------------------ claims

\* The request of this step was served by the handler op.
Served(op) == resp'.op = op

\* r names a broker call with this method on this kind of resource.
IsCall(r, method, what) == r.ev = "broker" /\ r.method = method /\ r.what = what

\* The call got an answer _api_request returns from: no exception is raised.
Answered(r) == r.outcome \in {"ok", "error"}

\* C1: a step removes an existing PulseUser's local row or broker account
\* only if the acting user is an admin or one of its owners, and changes its
\* owners or its broker password only if the acting user is one of its
\* owners; no step mutates it for anyone else.
C1_MutationNeedsAuthority ==
    [][\A p \in DOMAIN pulse_users :
          /\ ( \/ p \notin DOMAIN pulse_users'
               \/ (p \in DOMAIN rabbit_users /\ p \notin DOMAIN rabbit_users') )
             => /\ g_user # None
                /\ (g_user \in admins \/ g_user \in pulse_users[p])
          /\ ( \/ (p \in DOMAIN pulse_users' /\ pulse_users'[p] # pulse_users[p])
               \/ /\ p \in DOMAIN rabbit_users
                  /\ p \in DOMAIN rabbit_users'
                  /\ rabbit_users'[p] # rabbit_users[p] )
             => (g_user # None /\ g_user \in pulse_users[p])
      ]_vars

\* C1 witness: an owner who is no admin has deleted a pulse user.
C1_Witness ==
    /\ resp.op = "delete_pulse_user"
    /\ resp.ok = "true"
    /\ resp.user \notin admins

\* C2: delete_queue (1) answers ok=false, calls no broker delete and keeps
\* the local row for a user who is neither an admin nor among the owners of
\* the queue's owner; (2) deletes a queue with no owner on record only for an
\* admin; (3) for an admin and a queue found locally attempts the deletion
\* and, when the broker call does not raise, answers ok=true with the local
\* row removed.
C2_DeleteQueueAuthorization ==
    [][(Served("delete_queue") /\ requires_login) =>
          LET q == resp'.target
              u == g_user
              found == q \in DOMAIN queues
              owns == /\ found
                      /\ queues[q] # None
                      /\ queues[q] \in DOMAIN pulse_users
                      /\ u \in pulse_users[queues[q]]
              log == resp'.log
          IN  /\ (u \notin admins /\ ~owns)
                 => /\ resp'.ok = "false"
                    /\ log = <<>>
                    /\ UNCHANGED << queues, rabbit_queues >>
              /\ (found /\ queues[q] = None /\ q \notin DOMAIN queues')
                 => u \in admins
              /\ (u \in admins /\ found)
                 => /\ log # <<>>
                    /\ IsCall(log[1], "DELETE", "queues")
                    /\ log[1].name = q
                    /\ Answered(log[1])
                       => (resp'.ok = "true" /\ q \notin DOMAIN queues')
      ]_vars

\* C2 witness: a logged-in user who is no admin was refused the deletion of
\* a queue the local store holds.
C2_Witness ==
    /\ resp.op = "delete_queue"
    /\ resp.ok = "false"
    /\ resp.log = <<>>
    /\ resp.user # None
    /\ resp.user \notin admins
    /\ resp.target \in DOMAIN queues

\* The username is in one of the two systems and not in the other.
Split(n) == (n \in DOMAIN pulse_users) # (n \in DOMAIN rabbit_users)

\* The response tells the caller the request succeeded.
ReportsSuccess(r) == r.status = "redirect /profile" \/ r.ok = "true"

\* C3: a username comes to be in exactly one of the local store and the
\* broker only by a request that reported a failure; a request that reports
\* success never leaves a username in one system only.
C3_SplitOnlyAfterReportedFailure ==
    [][\A n \in Usernames :
          (~Split(n) /\ Split(n)') => ~ReportsSuccess(resp')]_vars

\* C4: register_handler writes the local PulseUser row only after the
\* broker-side creation, and when the broker-side creation fails the local
\* store is unchanged by the request.
C4_NoLocalRowWhenBrokerCreationFails ==
    [][Served("register_handler") =>
          LET log == resp'.log
          IN  /\ \A i \in 1..Len(log) :
                     log[i].ev = "db"
                     => \E j \in 1..(i - 1) : IsCall(log[j], "PUT", "users")
              /\ (\E i \in 1..Len(log) :
                      IsCall(log[i], "PUT", "users") /\ log[i].outcome # "ok")
                 => UNCHANGED pulse_users
      ]_vars

\* The local row the request was aimed at is gone after the step.
RemovedLocally ==
    \/ (Served("delete_queue") /\ resp'.target \in DOMAIN queues
            /\ resp'.target \notin DOMAIN queues')
    \/ (Served("delete_pulse_user") /\ resp'.target \in DOMAIN pulse_users
            /\ resp'.target \notin DOMAIN pulse_users')

\* The broker still holds what the request was aimed at after the step.
StillOnBroker ==
    \/ (Served("delete_queue") /\ resp'.target \in rabbit_queues')
    \/ (Served("delete_pulse_user") /\ resp'.target \in DOMAIN rabbit_users')

\* C5: delete_pulse_user and delete_queue issue the broker delete before the
\* local row is deleted; when the broker delete raises
\* PulseManagementException the local row stays and the answer is ok=false;
\* the local row is removed only in a request whose broker delete succeeded.
C5_LocalDeleteOnlyAfterBrokerDelete ==
    [][(Served("delete_queue") \/ Served("delete_pulse_user")) =>
          LET log == resp'.log
          IN  /\ RemovedLocally
                 => /\ Len(log) = 2
                    /\ log[1].ev = "broker" /\ log[1].method = "DELETE"
                    /\ log[2].ev = "db"
              /\ (log # <<>> /\ log[1].outcome = "garbage")
                 => (~RemovedLocally /\ resp'.ok = "false")
              /\ RemovedLocally => ~StillOnBroker
      ]_vars

C9_SecondDeleteQueueFails ==
    [][( /\ resp.op = "delete_queue"
         /\ resp.ok = "true"
         /\ Served("delete_queue")
         /\ resp'.target = resp.target )
       => /\ resp'.ok = "false"
          /\ resp'.log = <<>>
          /\ UNCHANGED << store, broker >>
      ]_vars

\* C9 witness: a delete_queue was refused for a queue that an earlier
\* deletion had removed from the local store.
C9_Witness ==
    /\ resp.op = "delete_queue"
    /\ resp.ok = "false"
    /\ resp.user # None
    /\ resp.target \notin DOMAIN queues

\* The register response reports the 'already exists' conflict.
Conflict(r) ==
    \E i \in 1..Len(r.errors) :
        r.errors[i].tag = "A user with the same username already exists."

\* C10: in register_handler a lookup answered with an "error" document means
\* the username is not on the broker; any other successful lookup means it
\* is, and the registration is rejected as a conflict; a lookup that fails
\* (broker unreachable or failing) is counted as neither, so no creation
\* follows it; a username in the local store is rejected whatever the broker
\* says.
C10_LookupHasThreeOutcomes ==
    [][(Served("register_handler") /\ resp'.log # <<>>) =>
          LET log == resp'.log
              n == resp'.target
              local == n \in DOMAIN pulse_users
              created == \E i \in 1..Len(log) : IsCall(log[i], "PUT", "users")
              failed == ~Answered(log[1])
              found == log[1].outcome = "ok" /\ n \in DOMAIN rabbit_users
          IN  /\ (Answered(log[1]) /\ ~found /\ ~local) => ~Conflict(resp')
              /\ found => (Conflict(resp') /\ ~created)
              /\ failed => (~created /\ (~local => ~Conflict(resp')))
              /\ local => (~created /\ UNCHANGED pulse_users)
      ]_vars

\* This step is an update_info request for an existing PulseUser, made by
\* one of its owners.
OwnerEdits ==
    /\ Served("update_info")
    /\ requires_login
    /\ resp'.target \in DOMAIN pulse_users
    /\ g_user \in pulse_users[resp'.target]

\* The request's password step lets it go on: no new password, or one that
\* matches its verification, is strong, and is set by a broker call that
\* does not raise.
PasswordStepPasses ==
    \/ resp'.form.password = None
    \/ /\ resp'.form.password = resp'.form.verification
       /\ strong_password(resp'.form.password)
       /\ resp'.log # <<>>
       /\ Answered(resp'.log[1])

\* The text names exactly the emails of S, in ascending order, joined by
\* ", ".
NamesInOrder(text, S) ==
    \E f \in [1..Cardinality(S) -> S] :
        /\ \A i, j \in 1..Cardinality(S) : i < j => LexLess(f[i], f[j])
        /\ text = join(f)

\* What C7 promises of a step: the owners are the resolvable emails of the
\* list, the change is committed, and the outcome names the unresolved
\* emails in order or, with none, is the plain success message.
PartialReconciliation ==
    LET p == resp'.target
        N == resp'.form.owners
        unresolved == N \ users
    IN  /\ pulse_users'[p] = N \cap users
        /\ \E i \in 1..Len(resp'.log) :
               resp'.log[i] = Commit("update", "owners", p)
        /\ resp'.status = "page profile"
        /\ IF unresolved # {}
           THEN /\ resp'.error.tag = "Some user emails not found: "
                /\ Len(resp'.error.arg) = 1
                /\ NamesInOrder(resp'.error.arg[1], unresolved)
           ELSE /\ resp'.error = NoMsg
                /\ resp'.messages = <<Msg("Email list updated.", <<>>)>>

\* C7 as stated: when the acting user owns p, the cleaned list differs from
\* p's owner emails and at least one of its emails resolves, the request
\* ends with the partial reconciliation.
C7_PartialReconciliationAlways ==
    [][( /\ OwnerEdits
         /\ resp'.form.owners # pulse_users[resp'.target]
         /\ resp'.form.owners \cap users # {} )
       => PartialReconciliation]_vars

\* C7 amended: the same, for a request whose password step lets it go on.
C7_PartialReconciliation ==
    [][( /\ OwnerEdits
         /\ PasswordStepPasses
         /\ resp'.form.owners # pulse_users[resp'.target]
         /\ resp'.form.owners \cap users # {} )
       => PartialReconciliation]_vars

\* C7 witness: an owner edit was committed and two unresolved emails were
\* reported.
C7_Witness ==
    /\ resp.op = "update_info"
    /\ resp.error.tag = "Some user emails not found: "
    /\ Cardinality(resp.form.owners \ users) = 2
    /\ resp.target \in DOMAIN pulse_users
    /\ pulse_users[resp.target] = resp.form.owners \cap users

\* What C8 promises of a step: the owners are unchanged and the outcome is
\* the rejection that asks for a comma-delimited list of existing emails.
EmptyResolutionRejected ==
    /\ pulse_users'[resp'.target] = pulse_users[resp'.target]
    /\ resp'.status = "page profile"
    /\ resp'.error.tag = "Invalid owners: Must be a comma-delimited list of existing user emails."
    /\ \A i \in 1..Len(resp'.messages) :
           resp'.messages[i].tag # "No info updated."

\* C8 as stated: every owner list whose cleaned set differs from p's owner
\* emails and of which no email resolves is rejected, the owners unchanged.
C8_EmptyResolutionRejectedAlways ==
    [][( /\ OwnerEdits
         /\ resp'.form.owners # pulse_users[resp'.target]
         /\ resp'.form.owners \cap users = {} )
       => EmptyResolutionRejected]_vars

\* C8 amended: the same, for a cleaned set that is not empty, in a request
\* whose password step lets it go on.
C8_EmptyResolutionRejected ==
    [][( /\ OwnerEdits
         /\ PasswordStepPasses
         /\ resp'.form.owners # {}
         /\ resp'.form.owners # pulse_users[resp'.target]
         /\ resp'.form.owners \cap users = {} )
       => EmptyResolutionRejected]_vars

\* C8 witness: an owner list of unknown emails only was rejected.
C8_Witness ==
    /\ resp.op = "update_info"
    /\ resp.error.tag = "Invalid owners: Must be a comma-delimited list of existing user emails."
    /\ resp.form.owners # {}
    /\ resp.form.owners \cap users = {}

\* This step is a login callback in which the token exchange or the profile
\* fetch did not succeed.
IdpFailed ==
    /\ Served("callback_handling")
    /\ \E i \in 1..Len(resp'.log) :
           resp'.log[i].ev = "idp" /\ resp'.log[i].outcome # "ok"

\* C11: a login callback whose token exchange or profile fetch does not
\* succeed leaves session['logged_in'] and session['email'] as they were,
\* creates no User, and redirects to the landing page with a notice that
\* names the configured provider domain.
C11_IdpFailureNoLoginAndNotice ==
    [][IdpFailed =>
          /\ UNCHANGED session
          /\ users' = users
          /\ resp'.status = "redirect /"
          /\ \E i \in 1..Len(resp'.messages) :
                 /\ resp'.messages[i].tag = "Error verifying with Auth0"
                 /\ resp'.messages[i].arg = <<auth0_domain>>
      ]_vars

\* The operations that mutate a queue or a pulse user.
MutatingOps == {"delete_queue", "delete_pulse_user", "update_info"}

\* The local store holds the target of the operation.
TargetExists(op, target) ==
    IF op = "delete_queue" THEN target \in DOMAIN queues
    ELSE target \in DOMAIN pulse_users

\* The handler's own condition lets the user u mutate the existing target.
Permitted(u, op, target) ==
    IF op = "delete_queue" THEN may_delete_queue(u, target)
    ELSE IF op = "delete_pulse_user" THEN may_delete_pulse_user(u, target)
    ELSE may_update_info(u, target)

\* What a caller sees of a response, the names it supplied itself left out.
Seen(r) ==
    [status |-> r.status, ok |-> r.ok,
     messages |-> [i \in 1..Len(r.messages) |-> r.messages[i].tag],
     error |-> r.error.tag]

\* C12: for delete_queue, delete_pulse_user and update_info, a logged-in
\* user who was just answered for a target that does not exist and now asks
\* the same operation for a target that exists but that they may not mutate is
\* given the same response: the two cases cannot be told apart.
C12_NoExistenceLeak ==
    [][( /\ resp.op \in MutatingOps
         /\ Served(resp.op)
         /\ requires_login
         /\ resp.user = g_user
         /\ resp.log = <<>>
         /\ ~TargetExists(resp.op, resp.target)
         /\ TargetExists(resp.op, resp'.target)
         /\ ~Permitted(g_user, resp.op, resp'.target) )
       => Seen(resp') = Seen(resp)]_vars

\* C13: update_info on an existing PulseUser by a logged-in user who is not
\* among its owners is answered on the profile page with the "not an owner"
\* message and no error raised, even for an admin, and changes neither the
\* broker password nor the owners; delete_pulse_user by an admin who is not
\* an owner is attempted and, unless the broker call raises, removes the
\* pulse user.
C13_OwnerOnlyAsymmetry ==
    [][LET p == resp'.target
           u == g_user
           stranger == /\ requires_login
                       /\ p \in DOMAIN pulse_users
                       /\ u \notin pulse_users[p]
       IN  /\ (Served("update_info") /\ stranger)
              => /\ resp'.status = "page profile"
                 /\ resp'.messages = <<Msg("Invalid user: is not an owner.", <<u>>)>>
                 /\ resp'.log = <<>>
                 /\ UNCHANGED << pulse_users, rabbit_users >>
           /\ (Served("delete_pulse_user") /\ stranger /\ u \in admins)
              => /\ resp'.log # <<>>
                 /\ IsCall(resp'.log[1], "DELETE", "users")
                 /\ resp'.log[1].name = p
                 /\ Answered(resp'.log[1])
                    => (resp'.ok = "true" /\ p \notin DOMAIN pulse_users')
      ]_vars

\* C13 witness: an admin who is not an owner was refused an edit of a pulse
\* user that the same admin could delete.
C13_Witness ==
    /\ resp.op = "update_info"
    /\ resp.user \in admins
    /\ resp.target \in DOMAIN pulse_users
    /\ resp.user \notin pulse_users[resp.target]
    /\ resp.messages = <<Msg("Invalid user: is not an owner.", <<resp.user>>)>>

\* C14: every PulseUser of the local store has at least one owner, and every
\* one of its owners is a User of the local store.
C14_OwnersAreLocalUsers ==
    \A p \in DOMAIN pulse_users :
        pulse_users[p] # {} /\ pulse_users[p] \subseteq users

\* C14 witness: a registration with an owner list of which one email
\* resolves and another does not has created a pulse user.
C14_Witness ==
    /\ resp.op = "register_handler"
    /\ resp.status = "redirect /profile"
    /\ resp.target \in DOMAIN pulse_users
    /\ resp.form.owners \ users # {}
    /\ pulse_users[resp.target] = resp.form.owners \cap users

\* C15: a step changes the admin flag of a User only if it is a
\* set_user_admin request by a logged-in user whose admin flag is set at the
\* time of the request; a set_user_admin request that names no existing
\* User changes no flag; and a User row that a step creates has its flag
\* unset.
C15_AdminFlagAdminOnly ==
    [][/\ admins' # admins
          => /\ Served("set_user_admin")
             /\ requires_login
             /\ g_user \in admins
       /\ (Served("set_user_admin") /\ resp'.target \notin users)
          => admins' = admins
       /\ \A u \in users' \ users : u \notin admins'
      ]_vars

\* C15 witness: a logged-in user who is no admin asked to make an existing
\* user an admin and was refused.
C15_Witness ==
    /\ resp.op = "set_user_admin"
    /\ resp.status = "abort 404"
    /\ resp.user # None
    /\ resp.user \notin admins
    /\ resp.target \in users
    /\ resp.target \notin admins

\* One of register_handler's checks of the passwords and the username
\* rejects the request: confirmation, strength, shape, the reserved pattern,
\* or the username found in the local store or by the broker lookup.
RejectedByChecks ==
    LET n == resp'.target
        log == resp'.log
    IN  \/ resp'.form.password # resp'.form.verification
        \/ ~strong_password(resp'.form.password)
        \/ ~username_shape(n)
        \/ reserved_users_regex(n)
        \/ n \in DOMAIN pulse_users
        \/ (log # <<>> /\ log[1].outcome = "ok" /\ n \in DOMAIN rabbit_users)

\* The request passes those checks and none of its owner emails is the
\* email of a local User.
OwnerResolutionFails ==
    /\ session.has_email
    /\ ~RejectedByChecks
    /\ resp'.log # <<>>
    /\ resp'.log[1].outcome # "down"
    /\ resp'.form.owners \cap users' = {}

ReportsFailure(r) ==
    \/ r.status = "error 500"
    \/ r.ok = "false"
    \/ r.error # NoMsg
    \/ r.errors # <<>>

\* C17: _api_request gives None for an empty body, the parsed document for
\* a body that is JSON, and raises PulseManagementException for any other
\* body it receives; and every request in which a broker call raised that
\* exception reports a failure to its caller.
C17_ClientErrorNeverSwallowed ==
    [][/\ \A n \in Usernames, method \in {"GET", "PUT", "DELETE"},
             b \in BrokerBehaviours \ {"down"} :
              LET body == Serve(method, "users", n, PwNew, b).body
                  r == api_request(method, "users", n, PwNew, b)
              IN  /\ body = "empty" => (r.ret = "None" /\ r.raised = "")
                  /\ body \in {"json", "json error"}
                     => (r.ret = body /\ r.raised = "")
                  /\ body = "not json" => r.raised = "PulseManagementException"
       /\ (\E i \in 1..Len(resp'.log) :
               resp'.log[i].ev = "broker" /\ resp'.log[i].outcome = "garbage")
          => (ReportsFailure(resp') /\ ~ReportsSuccess(resp'))
      ]_vars

\* The parts of a path between its "/" characters.
RECURSIVE segments(_)
segments(path) ==
    IF \A i \in 1..Len(path) : path[i] # "/" THEN <<path>>
    ELSE LET k == CHOOSE i \in 1..Len(path) :
                      path[i] = "/" /\ \A j \in 1..(i - 1) : path[j] # "/"
         IN  <<SubSeq(path, 1, k - 1)>> \o segments(SubSeq(path, k + 1, Len(path)))

\* Percent-decoding: every "%XX" that is the code of a character becomes
\* that character again.
RECURSIVE unquote(_)
unquote(s) ==
    IF s = <<>> THEN <<>>
    ELSE IF /\ Head(s) = "%"
            /\ Len(s) >= 3
            /\ \E c \in DOMAIN HexCode : HexCode[c] = <<s[2], s[3]>>
    THEN <<CHOOSE c \in DOMAIN HexCode : HexCode[c] = <<s[2], s[3]>> >>
         \o unquote(SubSeq(s, 4, Len(s)))
    ELSE <<Head(s)>> \o unquote(Tail(s))

\* C19: the path a client method builds has as many segments as the path
\* the same method builds for names without "/", the segment of the queue,
\* user or channel name decodes to that name, and the segment of the vhost
\* decodes to the vhost.
C19_PathEscapingRoundTrip ==
    resp.op \in ClientMethods =>
        LET parts == segments(resp.path)
            plain == segments(request_of(resp.op, <<"a">>, <<"a">>).path)
            of_queue == resp.op \in {"queues", "queue", "delete_queue"}
        IN  /\ Len(parts) = Len(plain)
            /\ parts[1] = plain[1]
            /\ of_queue => unquote(parts[2]) = resp.vhost
            /\ resp.op # "queues" => unquote(parts[Len(parts)]) = resp.name

\* C19 witness: a queue path was built for a vhost and a queue name that
\* both hold a "/", the queue name also a "%".
C19_Witness ==
    /\ resp.op = "delete_queue"
    /\ \E i \in 1..Len(resp.vhost) : resp.vhost[i] = "/"
    /\ \E i \in 1..Len(resp.name) : resp.name[i] = "/"
    /\ \E i \in 1..Len(resp.name) : resp.name[i] = "%"
    /\ Len(segments(resp.path)) = 3

\* C18: delete_all_queues asks for one listing and issues one delete per
\* listed queue, in the order of the listing; when no delete fails (the
\* broker serves each), it returns with every listed queue deleted; when the k-th delete raises, the
\* first k-1 queues of the listing have been deleted, the others are as they
\* were, no further delete is issued and the exception reaches the caller.
C18_DeleteAllQueuesBestEffort ==
    [][Served("delete_all_queues") =>
          LET listing == resp'.target
              log == resp'.log
              deletes == Tail(log)
              listed == log[1].outcome = "ok"
              Raises(i) == deletes[i].outcome \in {"garbage", "down"}
          IN  /\ log # <<>> /\ IsCall(log[1], "GET", "queues")
              /\ Len(deletes) <= Len(listing)
              /\ \A i \in 1..Len(deletes) :
                     IsCall(deletes[i], "DELETE", "queues") /\ deletes[i].name = listing[i]
              /\ (listed /\ \A i \in 1..Len(deletes) : deletes[i].outcome = "ok")
                 => /\ Len(deletes) = Len(listing)
                    /\ resp'.status = "returned"
                    /\ \A i \in 1..Len(listing) : listing[i] \notin rabbit_queues'
              /\ \A k \in 1..Len(deletes) :
                     Raises(k)
                     => /\ k = Len(deletes)
                        /\ resp'.status \notin {"returned", "none"}
                        /\ \A i \in 1..(k - 1) : listing[i] \notin rabbit_queues'
                        /\ \A i \in k..Len(listing) :
                               (listing[i] \in rabbit_queues')
                                   = (listing[i] \in rabbit_queues)
      ]_vars

\* C20: whenever an update_info request changes the broker password of the
\* PulseUser, the messages of its response include "Password updated",
\* whatever the owner list of the same request comes to.
C20_PasswordUpdateReported ==
    [][(Served("update_info") /\ rabbit_users' # rabbit_users)
       => \E i \in 1..Len(resp'.messages) :
              resp'.messages[i] = Msg("Password updated for user.", <<resp'.target>>)
      ]_vars

\* C21: a step adds a PulseUser row or a broker account only when the
\* session of the request carries a logged-in email; a register_handler
\* request made after logout_handler and before a new login creates nothing.
C21_CreationNeedsLogin ==
    [][( \/ DOMAIN pulse_users' \ DOMAIN pulse_users # {}
         \/ DOMAIN rabbit_users' \ DOMAIN rabbit_users # {} )
       => (requires_login /\ session.logged_in)]_vars

\* C22: of two register requests served at the same time, one whose lookup
\* the broker served issues its create_user PUT only for a username the
\* broker does not hold at that moment, so no credential on the broker is
\* overwritten; and of two requests for the same username at most one ends
\* with the username registered.
C22_NoOverwriteUnderInterleaving ==
    [][/\ \A i \in RaceRequests :
              LET q == resp.requests[i]
              IN  ( /\ Served("register_create_user")
                    /\ resp'.target = i
                    /\ q.lookup = "ok" )
                  => /\ q.username \notin DOMAIN rabbit_users
                     /\ \A n \in DOMAIN rabbit_users :
                            rabbit_users'[n] = rabbit_users[n]
       /\ ~ ( /\ resp'.requests[1].username = resp'.requests[2].username
              /\ resp'.requests[1].status = "redirect /profile"
              /\ resp'.requests[2].status = "redirect /profile" )
      ]_vars

====
